---- MODULE Spec2Model ----
(***************************************************************************)
(* Model of matrix-relay-bot (src/src/main.rs): the invite handler, the    *)
(* room discovery, the routing-table builder and the relay engine.         *)
(*                                                                         *)
(* Strings are sequences of one-character strings, so that starts_with,    *)
(* slicing, rsplit_once, substring search and format! are computed and not *)
(* assumed.  Option<T> is a sequence of length at most one.                *)
(***************************************************************************)
EXTENDS Integers, Sequences, FiniteSets, TLC

VARIABLES
    username,                \* relay(): the configured username
    dirName,                 \* server: name of every room of the public directory
    dirLimit,                \* server: page size of a directory response
    roomState,               \* client store: the bot's local view of every room
    pc,                      \* relay(): position of the main task
    handlers,                \* client: the registered event handlers
    tor_rooms,               \* relay(): result of get_all_tor_rooms
    idx,                     \* get_room_id_pairs: index of the tagged room in turn
    corresponding_room_ids,  \* get_room_id_pairs: the pairs found so far
    skipWarned,              \* get_room_id_pairs: tagged rooms the WARN line was printed for
    two_way_map,             \* relay(): the routing table
    handler_map,             \* the clone of two_way_map the message closure captured
    cur,                     \* the event of the handler invocation in progress (or last)
    hpc,                     \* position of that invocation: idle (none), accept,
                             \* sleep, done (returned)
    delay,                   \* on_stripped_state_member: local variable delay
    sent,                    \* outbound sends of this invocation, in order
    sleeps,                  \* delays slept by this invocation, in order
    accepts,                 \* results of the accept_invitation calls of this invocation
    printed                  \* lines this invocation printed

vars == <<username, dirName, dirLimit, roomState, pc, handlers,
          tor_rooms, idx, corresponding_room_ids, skipWarned, two_way_map,
          handler_map, cur, hpc, delay, sent, sleeps, accepts, printed>>

----------------------------------------------------------------------------
(* Strings *)

None == <<>>
Some(x) == <<x>>

S_bot == <<"b", "o", "t">>
S_al == <<"a", "l">>
BotUserId == <<"@", "b", "o", "t">>
AliceUserId == <<"@", "a", "l">>
S_Tor == <<"(", "T", "o", "r", ")">>
S_F == <<"F">>
S_G == <<"G">>
S_FTor == S_F \o <<" ">> \o S_Tor
S_FTorTor == S_FTor \o <<" ">> \o S_Tor
S_hi == <<"h", "i">>
S_relay == <<"r", "e", "l", "a", "y">>
S_bang == <<"!">>
S_LinkingRoom == <<"L","i","n","k","i","n","g"," ","r","o","o","m",":"," ">>
S_CommandNotFound == <<"C","o","m","m","a","n","d"," ","n","o","t"," ",
                       "f","o","u","n","d",":"," ">>

\* str::starts_with
starts_with(s, p) == Len(s) >= Len(p) /\ SubSeq(s, 1, Len(p)) = p

\* &s[n..]
SliceFrom(s, n) == SubSeq(s, n + 1, Len(s))

\* substring test, as the directory's generic_search_term matches a room name
Contains(s, t) == \E i \in 1..(Len(s) - Len(t) + 1) : SubSeq(s, i, i + Len(t) - 1) = t

\* str::rsplit_once(' '): Some(<<before, after>>) at the last space, or None
rsplit_once(s) ==
    LET spaces == {i \in 1..Len(s) : s[i] = " "}
    IN  IF spaces = {} THEN None
        ELSE LET i == CHOOSE j \in spaces : \A k \in spaces : k <= j
             IN  Some(<<SubSeq(s, 1, i - 1), SubSeq(s, i + 1, Len(s))>>)

----------------------------------------------------------------------------
(* The sets the inputs are drawn from *)

RoomOrder == <<"!a:hs", "!b:hs", "!c:hs">>
RoomIds == {RoomOrder[i] : i \in 1..Len(RoomOrder)}
RoomNames == {S_F, S_FTor, S_G}
DiscoveryNames == {S_F, S_FTor, S_FTorTor, S_G, S_Tor}
Usernames == {S_bot, BotUserId}
UserIds == {BotUserId, AliceUserId}
DisplayNames == {None, Some(S_bot), Some(S_al)}
TextBodies == {S_hi, S_bang \o S_relay, S_bang \o S_hi}
\* the client's local room: Room::Joined, Room::Invited, Room::Left, or none
LocalStates == {"joined", "invited", "left", "unknown"}
PageLimits == {2, 3}

\* the value of cur when no handler has been invoked
NoEvent ==
    [kind |-> "none", room |-> "", room_state |-> "", sender |-> <<>>,
     msgtype |-> "", body |-> <<>>, member |-> None, state_key |-> <<>>,
     handled |-> FALSE, hops |-> 0]

----------------------------------------------------------------------------
(* The public-room directory (the server behind client.public_rooms_filtered) *)

Min(a, b) == IF a <= b THEN a ELSE b

\* The response to a request whose filter.generic_search_term is term: the
\* rooms whose name contains term, one page of them, and whether more exist.
public_rooms_filtered(term) ==
    LET Match(r) == Contains(dirName[r], term)
        matches == SelectSeq(RoomOrder, Match)
        n == Min(Len(matches), dirLimit)
    IN  [chunk |-> [i \in 1..n |-> [room_id |-> matches[i], name |-> dirName[matches[i]]]],
         next_batch |-> Len(matches) > dirLimit]

----------------------------------------------------------------------------
(* Room discovery *)

\* get_all_tor_rooms: one (room_id, name) per room of the response
TorRoomsOf(response) ==
    [i \in 1..Len(response.chunk) |->
        <<response.chunk[i].room_id, response.chunk[i].name>>]

\* get_room_id_pairs: the WARN condition
TooManyRooms(response) == response.next_batch \/ Len(response.chunk) > 2

\* PairsFor with a seeded fault: every room of the response is paired,
\* whatever its name
PairsFor_AnyName(room_id, clearnet_name, chunk, i) ==
    [j \in 1..(Len(chunk) - i + 1) |-> <<room_id, chunk[i + j - 1].room_id>>]

\* get_room_id_pairs: the pairs pushed for one tagged room, in response order
RECURSIVE PairsFor(_, _, _, _)
PairsFor(room_id, clearnet_name, chunk, i) ==
    IF i > Len(chunk) THEN <<>>
    ELSE (IF chunk[i].name /= clearnet_name THEN <<>>
          ELSE << <<room_id, chunk[i].room_id>> >>)
         \o PairsFor(room_id, clearnet_name, chunk, i + 1)

----------------------------------------------------------------------------
(* Routing table *)

\* client.get_room: the room as the store knows it now, or None
get_room(room_id) ==
    IF roomState[room_id] = "unknown" THEN None
    ELSE Some([room_id |-> room_id, state |-> roomState[room_id]])

\* BTreeMap::insert
MapInsert(map, k, v) == (k :> v) @@ map

\* get_two_way_map_from_pairs: the loop over the pairs, from pair i on; a
\* failed unwrap panics
RECURSIVE TwoWayMapFrom(_, _, _)
TwoWayMapFrom(pairs, i, map) ==
    IF i > Len(pairs) THEN [panicked |-> FALSE, map |-> map]
    ELSE LET tor_room_id == pairs[i][1]
             clearnet_room_id == pairs[i][2]
             tor_room == get_room(tor_room_id)
             clearnet_room == get_room(clearnet_room_id)
         IN  IF tor_room = None \/ clearnet_room = None
             THEN [panicked |-> TRUE, map |-> map]
             ELSE TwoWayMapFrom(pairs, i + 1,
                     MapInsert(MapInsert(map, tor_room_id, clearnet_room[1]),
                               clearnet_room_id, tor_room[1]))

EmptyMap == [k \in {} |-> 0]

\* get_two_way_map_from_pairs with a seeded fault: a pair with a room the
\* client does not know is left out instead of stopping the program
get_two_way_map_from_pairs_SkipsUnknown(room_id_pairs) ==
    TwoWayMapFrom(SelectSeq(room_id_pairs,
                            LAMBDA p : get_room(p[1]) /= None /\ get_room(p[2]) /= None),
                  1, EmptyMap)

get_two_way_map_from_pairs(room_id_pairs) == TwoWayMapFrom(room_id_pairs, 1, EmptyMap)

----------------------------------------------------------------------------
(* Relay engine *)

\* member.display_name().unwrap_or_else(|| member.user_id().as_str())
SenderName(member) ==
    IF member.display_name /= None THEN member.display_name[1] ELSE member.user_id

\* IsLinked with a seeded fault: the routing-table check always passes
IsLinked_Always(map, room_id) == TRUE

\* two_way_map.contains_key(room.room_id())
IsLinked(map, room_id) == room_id \in DOMAIN map

\* NotSelf with a seeded fault: the sender is never taken for the bot
NotSelf_Never(name, uname) == TRUE

\* name != username
NotSelf(name, uname) == name /= uname

\* IsCommand with a seeded fault: no body is taken for a command
IsCommand_Never(msg_body) == FALSE

\* msg_body.starts_with("!")
IsCommand(msg_body) == starts_with(msg_body, S_bang)

\* the match on command: the text of the reply
CommandReply(command) ==
    IF command = S_relay THEN S_LinkingRoom \o command
    ELSE S_CommandNotFound \o command

\* format!("{name}: {msg_body}")
RelayBody(name, msg_body) == name \o <<":", " ">> \o msg_body

\* one tx_room.send / rx_room.send, with the result the server gave
Send(to, body, ok) == [to |-> to, body |-> body, ok |-> ok]

\* RelaySends with a seeded fault: a failed send is tried a second time
RelaySends_RetryOnce(map, tx_room_id, name, msg_body, send_ok) ==
    IF tx_room_id \notin DOMAIN map THEN [sent |-> <<>>, panicked |-> TRUE]
    ELSE LET rx_room == map[tx_room_id]
             first == Send(rx_room.room_id, RelayBody(name, msg_body), send_ok)
         IN  IF rx_room.state = "joined"
             THEN [sent |-> IF send_ok THEN <<first>>
                            ELSE <<first, [first EXCEPT !.ok = TRUE]>>,
                   panicked |-> FALSE]
             ELSE [sent |-> <<>>, panicked |-> FALSE]

\* RelaySends with a seeded fault: the relayed copy is sent into the room the
\* message came from
RelaySends_IntoOrigin(map, tx_room_id, name, msg_body, send_ok) ==
    IF tx_room_id \notin DOMAIN map THEN [sent |-> <<>>, panicked |-> TRUE]
    ELSE [sent |-> <<[to |-> tx_room_id, body |-> name \o <<":", " ">> \o msg_body,
                      ok |-> send_ok]>>,
          panicked |-> ~send_ok]

\* the else branch: two_way_map.get(tx_room.room_id()).unwrap(), and the send
\* into rx_room if it is a joined room
RelaySends(map, tx_room_id, name, msg_body, send_ok) ==
    IF tx_room_id \notin DOMAIN map THEN [sent |-> <<>>, panicked |-> TRUE]
    ELSE LET rx_room == map[tx_room_id]
         IN  IF rx_room.state = "joined"
             THEN [sent |-> <<Send(rx_room.room_id, RelayBody(name, msg_body), send_ok)>>,
                   panicked |-> ~send_ok]
             ELSE [sent |-> <<>>, panicked |-> FALSE]

\* the command branch: the reply goes into tx_room
CommandSends(tx_room_id, msg_body, send_ok) ==
    [sent |-> <<Send(tx_room_id, CommandReply(SliceFrom(msg_body, 1)), send_ok)>>,
     panicked |-> ~send_ok]

\* IsText with a seeded fault: every message type is taken for text
IsText_Any(msgtype) == TRUE

\* if let MessageType::Text(TextMessageEventContent { body, .. }) = msgtype
IsText(msgtype) == msgtype = "text"

Nothing == [sent |-> <<>>, panicked |-> FALSE]

\* on_room_message: the sends it makes, in order, and whether an unwrap
\* panicked.  member is the result of tx_room.get_member(&sender) (None when
\* the lookup does not give a member), send_ok the result of the send.
on_room_message(event, room, map, uname, member, send_ok) ==
    IF ~IsLinked(map, room.room_id) THEN Nothing
    ELSE IF room.state /= "joined" THEN Nothing
    ELSE IF ~IsText(event.msgtype) THEN Nothing
    ELSE IF member = None THEN [sent |-> <<>>, panicked |-> TRUE]
    ELSE LET name == SenderName(member[1])
             msg_body == event.body
         IN  IF ~NotSelf(name, uname) THEN Nothing
             ELSE IF IsCommand(msg_body)
             THEN CommandSends(room.room_id, msg_body, send_ok)
             ELSE RelaySends(map, room.room_id, name, msg_body, send_ok)

----------------------------------------------------------------------------
(* Invite handler *)

InitialDelay == 2
MaxDelay == 3600

\* NotForUs with a seeded fault: every invitation is taken to be for the bot
NotForUs_Never(state_key) == FALSE

\* room_member.state_key != client.user_id().unwrap()
NotForUs(state_key) == state_key /= BotUserId

\* if let Room::Invited(room) = room
IsInvited(room_state) == room_state = "invited"

\* NextDelay with a seeded fault: the delay grows by a constant
NextDelay_Linear(d) == d + 2

\* delay *= 2
NextDelay(d) == d * 2

\* GiveUp with a seeded fault: the loop stops one doubling later
GiveUp_Late(d) == d > 2 * MaxDelay

\* if delay > 3600 { ...; break }
GiveUp(d) == d > MaxDelay

----------------------------------------------------------------------------
(* Bounds *)

\* how many times in a row the model follows a sent message back in
MaxHops == 2

----------------------------------------------------------------------------
(* Initial states: relay() has logged in; the client's store is empty *)

InitWith(directories, limits) ==
    /\ username \in Usernames
    /\ dirName \in directories
    /\ dirLimit \in limits
    /\ roomState = [r \in RoomIds |-> "unknown"]
    /\ pc = "add_invite_handler"
    /\ handlers = {}
    /\ tor_rooms = <<>>
    /\ idx = 1
    /\ corresponding_room_ids = <<>>
    /\ skipWarned = {}
    /\ two_way_map = EmptyMap
    /\ handler_map = EmptyMap
    /\ cur = NoEvent
    /\ hpc = "idle"
    /\ delay = 0
    /\ sent = <<>>
    /\ sleeps = <<>>
    /\ accepts = <<>>
    /\ printed = <<>>

\* the directories of the whole program: every choice of names from
\* RoomNameOrder, one per multiset (the rooms taken in the order of the names)
RoomNameOrder == <<S_F, S_FTor, S_G>>
Rank(name) == CHOOSE i \in 1..Len(RoomNameOrder) : RoomNameOrder[i] = name
Directories ==
    {d \in [RoomIds -> RoomNames] :
        \A i, j \in 1..Len(RoomOrder) :
            i < j => Rank(d[RoomOrder[i]]) <= Rank(d[RoomOrder[j]])}

Init == InitWith(Directories, {Len(RoomOrder)})

InitDiscovery == InitWith([RoomIds -> DiscoveryNames], PageLimits)

config == <<username, dirName, dirLimit>>
startup == <<tor_rooms, idx, corresponding_room_ids, skipWarned, two_way_map>>
invocation == <<cur, hpc, delay, sent, sleeps, accepts, printed>>

----------------------------------------------------------------------------
(* relay(): startup *)

\* AddInviteHandler with a seeded fault: the message handler is registered
\* here as well, before the initial sync, with the table still empty
AddInviteHandler_AndMessageHandler ==
    /\ pc = "add_invite_handler"
    /\ handlers' = handlers \cup {"on_stripped_state_member", "on_room_message"}
    /\ pc' = "sync_once"
    /\ UNCHANGED <<config, roomState, startup, handler_map, invocation>>

\* client.add_event_handler(on_stripped_state_member)
AddInviteHandler ==
    /\ pc = "add_invite_handler"
    /\ handlers' = handlers \cup {"on_stripped_state_member"}
    /\ pc' = "sync_once"
    /\ UNCHANGED <<config, roomState, startup, handler_map, invocation>>

\* client.sync_once: the response sets up the store's rooms
SyncOnceResponse ==
    /\ pc = "sync_once"
    /\ \E st \in [RoomIds -> LocalStates] : roomState' = st
    /\ pc' = "sync_once_events"
    /\ UNCHANGED <<config, handlers, startup, handler_map, invocation>>

\* client.sync_once returns, once the handlers of its events have returned
SyncOnceDone ==
    /\ pc = "sync_once_events"
    /\ hpc = "idle"
    /\ pc' = "get_all_tor_rooms"
    /\ UNCHANGED <<config, roomState, handlers, startup, handler_map, invocation>>

\* get_all_tor_rooms, the query answered
GetAllTorRooms ==
    /\ pc = "get_all_tor_rooms"
    /\ tor_rooms' = TorRoomsOf(public_rooms_filtered(S_Tor))
    /\ idx' = 1
    /\ pc' = "get_room_id_pairs"
    /\ UNCHANGED <<config, roomState, handlers, corresponding_room_ids, skipWarned,
                   two_way_map, handler_map, invocation>>

\* get_all_tor_rooms, the query failed: `?` returns the error from relay()
GetAllTorRoomsFails ==
    /\ pc = "get_all_tor_rooms"
    /\ pc' = "failed"
    /\ UNCHANGED <<config, roomState, handlers, startup, handler_map, invocation>>

\* get_room_id_pairs: one iteration of the loop over tor_rooms
GetRoomIdPairsStep ==
    /\ pc = "get_room_id_pairs"
    /\ idx <= Len(tor_rooms)
    /\ LET room_id == tor_rooms[idx][1]
           room_name == tor_rooms[idx][2]
           split == rsplit_once(room_name)
       IN  IF split = None
           THEN /\ pc' = "panicked"
                /\ UNCHANGED <<idx, corresponding_room_ids, skipWarned>>
           ELSE LET clearnet_name == split[1][1]
                    response == public_rooms_filtered(clearnet_name)
                IN  /\ skipWarned' = IF TooManyRooms(response)
                                     THEN skipWarned \cup {room_id} ELSE skipWarned
                    /\ corresponding_room_ids' = corresponding_room_ids
                            \o PairsFor(room_id, clearnet_name, response.chunk, 1)
                    /\ idx' = idx + 1
                    /\ pc' = pc
    /\ UNCHANGED <<config, roomState, handlers, tor_rooms, two_way_map, handler_map,
                   invocation>>

\* get_room_id_pairs: the query of this iteration failed
GetRoomIdPairsFails ==
    /\ pc = "get_room_id_pairs"
    /\ idx <= Len(tor_rooms)
    /\ rsplit_once(tor_rooms[idx][2]) /= None
    /\ pc' = "failed"
    /\ UNCHANGED <<config, roomState, handlers, startup, handler_map, invocation>>

\* get_room_id_pairs returns Ok; get_two_way_map_from_pairs builds the table
BuildTwoWayMap ==
    /\ pc = "get_room_id_pairs"
    /\ idx > Len(tor_rooms)
    /\ LET res == get_two_way_map_from_pairs(corresponding_room_ids)
       IN  IF res.panicked
           THEN pc' = "panicked" /\ UNCHANGED two_way_map
           ELSE pc' = "add_message_handler" /\ two_way_map' = res.map
    /\ UNCHANGED <<config, roomState, handlers, tor_rooms, idx, corresponding_room_ids,
                   skipWarned, handler_map, invocation>>

\* client.add_event_handler(closure): two_way_map moves into the closure
AddMessageHandler ==
    /\ pc = "add_message_handler"
    /\ handlers' = handlers \cup {"on_room_message"}
    /\ handler_map' = two_way_map
    /\ pc' = "live"
    /\ UNCHANGED <<config, roomState, startup, invocation>>

----------------------------------------------------------------------------
(* The sync loop calls the handlers of an event and awaits them *)

Syncing == pc \in {"sync_once_events", "live"}

\* on_stripped_state_member, from its call to the first await (or its return)
OnStrippedStateMember(r, state_key) ==
    /\ Syncing
    /\ hpc = "idle"
    /\ "on_stripped_state_member" \in handlers
    /\ roomState[r] /= "unknown"
    /\ cur' = [NoEvent EXCEPT !.kind = "invite", !.room = r,
                              !.room_state = roomState[r],
                              !.state_key = state_key, !.handled = TRUE]
    /\ sent' = <<>>
    /\ sleeps' = <<>>
    /\ accepts' = <<>>
    /\ IF NotForUs(state_key) \/ ~IsInvited(roomState[r])
       THEN /\ hpc' = "done"
            /\ delay' = 0
            /\ printed' = <<>>
       ELSE /\ hpc' = "accept"
            /\ delay' = InitialDelay
            /\ printed' = <<"Autojoining room">>
    /\ UNCHANGED <<config, roomState, pc, handlers, startup, handler_map>>

\* AcceptInvitation with a seeded fault: a successful join also refreshes the
\* handles of the joined room in the table the message handler holds
AcceptInvitation_RefreshesTable(ok) ==
    /\ hpc = "accept"
    /\ accepts' = Append(accepts, ok)
    /\ IF ok
       THEN /\ roomState' = [roomState EXCEPT ![cur.room] = "joined"]
            /\ handler_map' = [k \in DOMAIN handler_map |->
                                 IF handler_map[k].room_id = cur.room
                                 THEN [handler_map[k] EXCEPT !.state = "joined"]
                                 ELSE handler_map[k]]
            /\ printed' = Append(printed, "Successfully joined room")
            /\ hpc' = "done"
       ELSE /\ roomState' = roomState
            /\ handler_map' = handler_map
            /\ printed' = Append(printed, "Failed to join room")
            /\ hpc' = "sleep"
    /\ UNCHANGED <<config, pc, handlers, startup, cur, delay, sent, sleeps>>

\* room.accept_invitation().await returns
AcceptInvitation(ok) ==
    /\ hpc = "accept"
    /\ accepts' = Append(accepts, ok)
    /\ IF ok
       THEN /\ roomState' = [roomState EXCEPT ![cur.room] = "joined"]
            /\ printed' = Append(printed, "Successfully joined room")
            /\ hpc' = "done"
       ELSE /\ roomState' = roomState
            /\ printed' = Append(printed, "Failed to join room")
            /\ hpc' = "sleep"
    /\ UNCHANGED <<config, pc, handlers, startup, handler_map, cur, delay, sent, sleeps>>

\* sleep(delay).await returns; delay *= 2; the cap
SleepAndDouble ==
    /\ hpc = "sleep"
    /\ sleeps' = Append(sleeps, delay)
    /\ delay' = NextDelay(delay)
    /\ IF GiveUp(NextDelay(delay))
       THEN /\ printed' = printed \o <<"Can't join room", "Successfully joined room">>
            /\ hpc' = "done"
       ELSE /\ printed' = printed
            /\ hpc' = "accept"
    /\ UNCHANGED <<config, roomState, pc, handlers, startup, handler_map, cur, sent, accepts>>

\* what tx_room.get_member(&sender) gives for a sender: no member (the unwrap
\* panics), or the member with the display name it has in the room
MemberResults(sender) ==
    {None} \cup {Some([user_id |-> sender, display_name |-> d]) : d \in DisplayNames}

\* An OriginalSyncRoomMessageEvent reaches the client: the registered message
\* handler, if any, runs to its end.
Dispatch(ev, hops, member, send_ok) ==
    LET room == [room_id |-> ev.room, state |-> roomState[ev.room]]
        registered == "on_room_message" \in handlers
        res == IF registered
               THEN on_room_message(ev, room, handler_map, username, member, send_ok)
               ELSE Nothing
    IN  /\ cur' = [NoEvent EXCEPT !.kind = "message", !.room = ev.room,
                                  !.room_state = roomState[ev.room],
                                  !.sender = ev.sender, !.msgtype = ev.msgtype,
                                  !.body = ev.body, !.member = member,
                                  !.handled = registered, !.hops = hops]
        /\ sent' = res.sent
        /\ pc' = IF res.panicked THEN "panicked" ELSE pc
        /\ hpc' = "done"
        /\ delay' = 0
        /\ sleeps' = <<>>
        /\ accepts' = <<>>
        /\ printed' = <<>>
        /\ UNCHANGED <<config, roomState, handlers, startup, handler_map>>

\* the member lookups of the invocations for an event: none without a handler
Lookups(sender) ==
    IF "on_room_message" \in handlers THEN MemberResults(sender) ELSE {None}

\* the results the send of an invocation can have: one only if it sends
SendResults(ev, member) ==
    IF /\ "on_room_message" \in handlers
       /\ on_room_message(ev, [room_id |-> ev.room, state |-> roomState[ev.room]],
                          handler_map, username, member, TRUE).sent /= <<>>
    THEN BOOLEAN
    ELSE {TRUE}

MessageKinds == {<<"text", b>> : b \in TextBodies} \cup {<<"image", S_hi>>}

\* a message some account posted in room r
RoomMessage(r, sender, kind) ==
    /\ Syncing
    /\ hpc = "idle"
    /\ roomState[r] \in {"joined", "left"}
    /\ LET ev == [room |-> r, sender |-> sender, msgtype |-> kind[1], body |-> kind[2]]
       IN  \E member \in Lookups(ev.sender) : \E send_ok \in SendResults(ev, member) :
               Dispatch(ev, 0, member, send_ok)

\* the message the last invocation sent comes back on the event stream
OwnMessage ==
    /\ pc = "live"
    /\ hpc = "done"
    /\ cur.kind = "message"
    /\ cur.hops < MaxHops
    /\ sent /= <<>>
    /\ sent[1].ok
    /\ roomState[sent[1].to] \in {"joined", "left"}
    /\ LET ev == [room |-> sent[1].to, sender |-> BotUserId, msgtype |-> "text",
                  body |-> sent[1].body]
       IN  \E member \in Lookups(ev.sender) : \E send_ok \in SendResults(ev, member) :
               Dispatch(ev, cur.hops + 1, member, send_ok)

\* the handler has returned and the sync loop goes on to the next event: the
\* record of the invocation is dropped
HandlerReturned ==
    /\ Syncing
    /\ hpc = "done"
    /\ hpc' = "idle"
    /\ cur' = NoEvent
    /\ delay' = 0
    /\ sent' = <<>>
    /\ sleeps' = <<>>
    /\ accepts' = <<>>
    /\ printed' = <<>>
    /\ UNCHANGED <<config, roomState, pc, handlers, startup, handler_map>>

----------------------------------------------------------------------------
(* Specifications *)

NextDiscovery ==
    \/ AddInviteHandler
    \/ SyncOnceResponse
    \/ SyncOnceDone
    \/ GetAllTorRooms
    \/ GetAllTorRoomsFails
    \/ GetRoomIdPairsStep
    \/ GetRoomIdPairsFails
    \/ BuildTwoWayMap
    \/ AddMessageHandler

Next ==
    \/ NextDiscovery
    \/ \E r \in RoomIds, k \in UserIds : OnStrippedStateMember(r, k)
    \/ \E ok \in BOOLEAN : AcceptInvitation(ok)
    \/ SleepAndDouble
    \/ \E r \in RoomIds, u \in UserIds, kind \in MessageKinds : RoomMessage(r, u, kind)
    \/ OwnMessage
    \/ HandlerReturned

\* the whole program
Spec == Init /\ [][Next]_vars

\* startup alone, over a wider choice of directories
SpecDiscovery == InitDiscovery /\ [][NextDiscovery]_vars

----------------------------------------------------------------------------
(* Relay engine: properties *)

\* an on_room_message invocation has run to its end (or to its panic)
MessageHandled == cur.kind = "message" /\ cur.handled /\ hpc = "done"

\* the name the sender of the handled message goes by in its room
CurName ==
    IF cur.member[1].display_name = None THEN cur.sender
    ELSE cur.member[1].display_name[1]

\* the handled message is a text message of a linked room from a sender that
\* does not go by the configured username
FromLinkedNonBot ==
    /\ MessageHandled
    /\ cur.room \in DOMAIN handler_map
    /\ cur.msgtype = "text"
    /\ cur.member /= None
    /\ CurName /= username

\* the invocation made exactly one send, the relayed copy in the counterpart
OneRelayToCounterpart ==
    /\ Len(sent) = 1
    /\ sent[1].to = handler_map[cur.room].room_id
    /\ sent[1].body = CurName \o <<":", " ">> \o cur.body
    /\ \A i \in 1..Len(sent) : sent[i].to /= cur.room

\* the table of the handler links its rooms in pairs, each the other's
\* counterpart
Paired ==
    \A a \in DOMAIN handler_map :
        /\ handler_map[a].room_id \in DOMAIN handler_map
        /\ handler_map[handler_map[a].room_id].room_id = a

\* C1 as stated: a text message of a linked room, from a sender other than
\* the bot and not a command, causes exactly one send, "<senderName>: <body>"
\* into the counterpart room, and none into its own room.  (Stated for the
\* tables that link rooms in pairs, so that a violation is one of the relay
\* engine and not of the table.)
C1_AsStated ==
    (Paired /\ FromLinkedNonBot /\ cur.body[1] /= "!") => OneRelayToCounterpart

\* C1 amended: the same, when the room of the message is a joined room and
\* the routing table holds a joined room for it.
C1_RelayWhenBothJoined ==
    (/\ FromLinkedNonBot
     /\ cur.body[1] /= "!"
     /\ cur.room_state = "joined"
     /\ handler_map[cur.room].state = "joined") => OneRelayToCounterpart

C1_Witness ==
    /\ FromLinkedNonBot
    /\ cur.body = S_hi
    /\ cur.room_state = "joined"
    /\ handler_map[cur.room].state = "joined"
    /\ Len(sent) = 1
    /\ sent[1].ok

\* C2: a message whose sender goes by the configured username (by display
\* name, or by raw user id when no display name is set) causes no send.
C2_NoSendForSelf ==
    (MessageHandled /\ cur.member /= None /\ CurName = username) => sent = <<>>

C2_Witness ==
    /\ MessageHandled
    /\ cur.room \in DOMAIN handler_map
    /\ cur.room_state = "joined"
    /\ cur.msgtype = "text"
    /\ cur.member /= None
    /\ cur.member[1].display_name = None
    /\ cur.sender = username
    /\ sent = <<>>

\* C3 as stated: a message the bot's own account sent, coming back as an
\* inbound event, causes no further send, whatever the bot's display name.
\* (Stated for the tables that link rooms in pairs.)
C3_AsStated == (Paired /\ MessageHandled /\ cur.hops > 0) => sent = <<>>

\* C4: a message of a room that is no key of the routing table causes no send.
C4_Isolation ==
    (MessageHandled /\ cur.room \notin DOMAIN handler_map) => sent = <<>>

C4_Witness ==
    /\ MessageHandled
    /\ cur.room \notin DOMAIN handler_map
    /\ DOMAIN handler_map /= {}
    /\ cur.room_state = "joined"
    /\ cur.msgtype = "text"
    /\ cur.body = S_bang \o S_hi
    /\ cur.member /= None
    /\ CurName /= username

\* the reply the command of the handled message gets
ExpectedReply ==
    LET command == SubSeq(cur.body, 2, Len(cur.body))
    IN  IF command = S_relay THEN S_LinkingRoom \o S_relay
        ELSE S_CommandNotFound \o command

\* the invocation made exactly one send, the reply in the room of the message
OneReplyIntoOrigin ==
    /\ Len(sent) = 1
    /\ sent[1].to = cur.room
    /\ sent[1].to /= handler_map[cur.room].room_id
    /\ sent[1].body = ExpectedReply

\* C5 as stated: a "!" message of a linked room from a non-bot sender causes
\* one send, the reply into its own room, and nothing into the counterpart.
\* (Stated for the tables that link rooms in pairs.)
C5_AsStated ==
    (Paired /\ FromLinkedNonBot /\ cur.body[1] = "!") => OneReplyIntoOrigin

\* C5 amended: nothing is sent into the counterpart; when the room of the
\* message is a joined room the only send is the one reply into it, and
\* otherwise nothing is sent.
C5_CommandShortCircuit ==
    (FromLinkedNonBot /\ cur.body[1] = "!") =>
        /\ \A i \in 1..Len(sent) : sent[i].to /= handler_map[cur.room].room_id
        /\ cur.room_state = "joined" => OneReplyIntoOrigin
        /\ cur.room_state /= "joined" => sent = <<>>

C5_Witness ==
    /\ FromLinkedNonBot
    /\ cur.body = S_bang \o S_hi
    /\ cur.room_state = "joined"
    /\ Len(sent) = 1
    /\ sent[1].body = S_CommandNotFound \o S_hi

----------------------------------------------------------------------------
(* Room discovery and routing table: properties *)

\* get_room_id_pairs has gone through all of tor_rooms
DiscoveryDone ==
    \/ pc = "get_room_id_pairs" /\ idx > Len(tor_rooms)
    \/ pc \in {"add_message_handler", "live"}

\* get_two_way_map_from_pairs has returned the table
Built == pc \in {"add_message_handler", "live"}

PairIndices == 1..Len(corresponding_room_ids)

\* C6 as stated: once the table is built, it maps A to B and B to A for
\* every discovered pair (A,B).
C6_AsStated ==
    Built => \A i \in PairIndices :
                LET A == corresponding_room_ids[i][1]
                    B == corresponding_room_ids[i][2]
                IN  /\ two_way_map[A].room_id = B
                    /\ two_way_map[B].room_id = A

\* C7 as stated: in the list of pairs handed to the routing-table builder no
\* room identifier appears in two pairs.
C7_AsStated ==
    DiscoveryDone =>
        \A i, j \in PairIndices :
            i < j => {corresponding_room_ids[i][1], corresponding_room_ids[i][2]}
                     \cap {corresponding_room_ids[j][1], corresponding_room_ids[j][2]} = {}

\* C8 as stated: a tagged room whose counterpart query gave more than 2
\* results, or a next_batch, gets no pair of its own, and no table entry
\* unless as the counterpart of another tagged room.
C8_AsStated ==
    \A r \in skipWarned :
        /\ \A i \in PairIndices : corresponding_room_ids[i][1] /= r
        /\ r \in DOMAIN two_way_map =>
               \E i \in PairIndices : corresponding_room_ids[i][2] = r

----------------------------------------------------------------------------
(* Invite handler: properties *)

\* the invitation being handled is for the bot and its room is invited
InviteForUs ==
    cur.kind = "invite" /\ cur.state_key = BotUserId /\ cur.room_state = "invited"

FailedAccepts == Len(SelectSeq(accepts, LAMBDA ok : ~ok))

\* C9: the delays slept are 2, 4, 8, ..., doubling from 2, one after each
\* failed accept; none is longer than 3600 s; an accept is attempted only
\* while the next delay is at most 3600 s, and once the next delay would
\* exceed 3600 s the handler has stopped without another attempt.
C9_BackoffBound ==
    /\ \A i \in 1..Len(sleeps) :
          /\ sleeps[i] = (IF i = 1 THEN 2 ELSE 2 * sleeps[i - 1])
          /\ sleeps[i] <= 3600
    /\ Len(sleeps) = (IF hpc = "sleep" THEN FailedAccepts - 1 ELSE FailedAccepts)
    /\ hpc = "accept" =>
          /\ delay <= 3600
          /\ delay = (IF sleeps = <<>> THEN 2 ELSE 2 * sleeps[Len(sleeps)])
    /\ (sleeps /= <<>> /\ 2 * sleeps[Len(sleeps)] > 3600) =>
          /\ hpc = "done"
          /\ Len(accepts) = Len(sleeps)

C9_Witness ==
    /\ InviteForUs
    /\ hpc = "done"
    /\ Len(sleeps) = 11
    /\ sleeps[11] = 2048
    /\ FailedAccepts = 11

\* an on_stripped_state_member invocation that is not for the bot, or not
\* for an invited room, has done nothing
C10_NothingDone ==
    (cur.kind = "invite" /\ ~InviteForUs) =>
        /\ hpc = "done"
        /\ accepts = <<>>
        /\ sleeps = <<>>
        /\ printed = <<>>
        /\ sent = <<>>

\* accept_invitation is called, and the handler sleeps, only for InviteForUs
C10_OnlyForUs ==
    (accepts /= <<>> \/ sleeps /= <<>> \/ hpc \in {"accept", "sleep"}) => InviteForUs

\* the step that invokes the handler for such an event changes nothing else
C10_NoSideEffect ==
    (hpc = "idle" /\ cur'.kind = "invite"
        /\ ~(cur'.state_key = BotUserId /\ cur'.room_state = "invited")) =>
    UNCHANGED <<config, roomState, pc, handlers, startup, handler_map>>

\* C10: on_stripped_state_member calls accept_invitation only when the
\* event's state_key is the bot's user id and the room is an invited room;
\* otherwise it makes no join attempt, does not sleep and changes nothing.
C10_OnlyOwnInvites ==
    /\ [](C10_NothingDone /\ C10_OnlyForUs)
    /\ [][C10_NoSideEffect]_vars

C10_Witness ==
    /\ cur.kind = "invite"
    /\ cur.state_key = AliceUserId
    /\ cur.room_state = "invited"
    /\ hpc = "done"
    /\ accepts = <<>>

----------------------------------------------------------------------------
(* The event loop: properties *)

\* some room is linked, joined, and has a joined room as its counterpart
SomeRoomRelays ==
    \E r \in DOMAIN handler_map :
        roomState[r] = "joined" /\ handler_map[r].state = "joined"

\* C11 as stated: while an on_stripped_state_member invocation sleeps between
\* join attempts, a text message arriving in a linked room can be handled
\* (and relayed) without waiting for the retry loop to finish.
C11_AsStated ==
    (pc = "live" /\ hpc = "sleep" /\ SomeRoomRelays) =>
        ENABLED (\E r \in DOMAIN handler_map :
                    RoomMessage(r, AliceUserId, <<"text", S_hi>>))

\* C12 as stated: after a send of an invocation has failed, or a join attempt
\* has failed, the live loop is still running.
C12_AsStated ==
    ((\E i \in 1..Len(sent) : ~sent[i].ok) \/ (\E i \in 1..Len(accepts) : ~accepts[i]))
        => Syncing

----------------------------------------------------------------------------
(* The routing table after startup *)

Registered == "on_room_message" \in handlers

\* the ids that occur in the discovered pairs
PairedIds ==
    {corresponding_room_ids[i][k] : i \in PairIndices, k \in 1..2}

\* the message handler exists only once the table is complete, and the table
\* it holds is the one get_two_way_map_from_pairs returned
C13_BuiltBeforeUse ==
    Registered =>
        /\ pc \in {"live", "panicked"}
        /\ idx > Len(tor_rooms)
        /\ handler_map = two_way_map
        /\ DOMAIN handler_map = PairedIds

\* no step after the table is built, and no step of a handler invocation,
\* changes the table
C13_Frozen ==
    /\ (Built \/ Registered) => (two_way_map' = two_way_map)
    /\ Registered => (handler_map' = handler_map)
    /\ (hpc /= "idle" \/ hpc' /= "idle") =>
           (two_way_map' = two_way_map /\ handler_map' = handler_map)

\* C13: the message handler is registered only after the routing table is
\* completely built; every on_room_message invocation consults a table equal
\* to the one built at startup; no handler invocation (message or invite)
\* adds, removes or changes an entry of the table.
C13_InitializeThenFreeze ==
    [](C13_BuiltBeforeUse) /\ [][C13_Frozen]_vars

\* a message is handled with a table whose handle of a room still shows the
\* state the room had at startup although the room has been joined since
C13_Witness ==
    /\ pc = "live"
    /\ MessageHandled
    /\ cur.room \in DOMAIN handler_map
    /\ handler_map = two_way_map
    /\ handler_map[cur.room].state = "invited"
    /\ roomState[handler_map[cur.room].room_id] = "joined"

----------------------------------------------------------------------------
(* Startup failures *)

\* a room of a discovered pair is not known to the client
UnresolvedPair ==
    \E id \in PairedIds : roomState[id] = "unknown"

\* C14: if a directory query fails during discovery, or a room id of a
\* discovered pair cannot be resolved to a locally known room, startup stops
\* there: the message handler is never registered, the live sync is never
\* entered, and nothing is ever sent with a partially built table.
C14_FailFast ==
    /\ pc = "failed" => (~Registered /\ sent = <<>> /\ ~ENABLED Next)
    /\ UnresolvedPair =>
          /\ ~Registered
          /\ pc \notin {"add_message_handler", "live"}
          /\ sent = <<>>
          /\ pc = "panicked" => ~ENABLED Next
    /\ sent /= <<>> =>
          /\ Registered
          /\ idx > Len(tor_rooms)
          /\ DOMAIN handler_map = PairedIds

\* startup has stopped at a pair with an unknown room although another pair
\* could have been linked
C14_Witness ==
    /\ pc = "panicked"
    /\ ~Registered
    /\ idx > Len(tor_rooms)
    /\ UnresolvedPair
    /\ \E i \in PairIndices :
          /\ roomState[corresponding_room_ids[i][1]] /= "unknown"
          /\ roomState[corresponding_room_ids[i][2]] /= "unknown"

----------------------------------------------------------------------------
(* What one message invocation sends *)

\* C15: an on_room_message invocation makes at most one send attempt in all,
\* also when that send fails: a failed send is never followed by another
\* attempt; sends are made by message invocations only.
C15_AtMostOneSend ==
    /\ Len(sent) <= 1
    /\ sent /= <<>> => (cur.kind = "message" /\ cur.handled)

\* an invocation whose one send failed
C15_Witness ==
    /\ MessageHandled
    /\ Len(sent) = 1
    /\ ~sent[1].ok

\* C16: a message that is not a text message (an image, a notice, ...) makes
\* the handler send nothing and leaves the loop running, also when it comes
\* from a linked room and from a sender other than the bot.
C16_OnlyText ==
    (cur.kind = "message" /\ cur.msgtype /= "text") =>
        (sent = <<>> /\ pc /= "panicked")

\* an image of another account is handled in a linked joined room whose
\* counterpart is joined
C16_Witness ==
    /\ MessageHandled
    /\ cur.msgtype = "image"
    /\ cur.sender = AliceUserId
    /\ cur.member /= None
    /\ cur.room_state = "joined"
    /\ cur.room \in DOMAIN handler_map
    /\ handler_map[cur.room].state = "joined"

----------------------------------------------------------------------------
(* The end of an invite invocation *)

AllFailed == \A i \in 1..Len(accepts) : ~accepts[i]

\* the invocation has ended at its first successful accept
EndedJoined ==
    /\ accepts /= <<>>
    /\ accepts[Len(accepts)]
    /\ \A i \in 1..(Len(accepts) - 1) : ~accepts[i]
    /\ roomState[cur.room] = "joined"

\* the invocation has given the room up: every accept failed
EndedAbandoned ==
    /\ accepts /= <<>>
    /\ AllFailed
    /\ roomState[cur.room] = "invited"

\* C17: an on_stripped_state_member invocation for an invitation of the bot
\* ends, given that each accept_invitation (and each sleep) returns: while it
\* has not ended its next step can be taken, it makes at most 11 accept
\* attempts and at most one sleep per failed attempt, and it ends as joined at
\* its first successful accept or as abandoned after failed attempts only,
\* with the room still un-joined; once it has ended no accept is attempted.
C17_InviteTerminates ==
    /\ Len(accepts) <= 11
    /\ Len(sleeps) <= Len(accepts)
    /\ hpc = "accept" =>
          (InviteForUs /\ AllFailed /\ \A ok \in BOOLEAN : ENABLED AcceptInvitation(ok))
    /\ hpc = "sleep" => (InviteForUs /\ AllFailed /\ ENABLED SleepAndDouble)
    /\ (InviteForUs /\ hpc = "done") =>
          /\ EndedJoined \/ (EndedAbandoned /\ Len(accepts) = 11)
          /\ \A ok \in BOOLEAN : ~ENABLED AcceptInvitation(ok)
          /\ ~ENABLED SleepAndDouble

\* an invitation given up after the eleventh failed accept
C17_Witness ==
    /\ InviteForUs
    /\ hpc = "done"
    /\ EndedAbandoned
    /\ Len(accepts) = 11

----------------------------------------------------------------------------
(* The initial sync *)

\* C18: an event of the initial sync (sync_once) never causes a send: while
\* its events are delivered no message handler is registered, a message event
\* runs no handler and nothing is sent; whatever is sent is sent in the live
\* sync.  The invite handler is registered by then: an invitation delivered by
\* the initial sync runs it, and an invitation of the bot is accepted.
C18_NoOldMessages ==
    /\ pc \in {"sync_once", "sync_once_events"} =>
          /\ ~Registered
          /\ sent = <<>>
          /\ "on_stripped_state_member" \in handlers
          /\ cur.kind = "message" => ~cur.handled
          /\ cur.kind = "invite" => cur.handled
          /\ InviteForUs => (hpc = "accept" \/ accepts /= <<>>)
    /\ (pc = "sync_once_events" /\ hpc = "idle") =>
          \A r \in RoomIds : roomState[r] = "invited" =>
              ENABLED OnStrippedStateMember(r, BotUserId)
    /\ sent /= <<>> => pc \in {"live", "panicked"}

\* a text message of a joined room has been delivered by the initial sync
C18_Witness ==
    /\ pc = "sync_once_events"
    /\ hpc = "done"
    /\ cur.kind = "message"
    /\ cur.msgtype = "text"
    /\ cur.room_state = "joined"
    /\ cur.sender = AliceUserId
    /\ sent = <<>>

----------------------------------------------------------------------------
(* What the invite handler reports *)

Reported(line) == \E i \in 1..Len(printed) : printed[i] = line

\* C19 as stated: "Successfully joined room" is reported only when an
\* accept_invitation call returned success; an invitation given up is
\* reported as a failure and never as joined.
C19_AsStated ==
    /\ Reported("Successfully joined room") => \E i \in 1..Len(accepts) : accepts[i]
    /\ Reported("Can't join room") => ~Reported("Successfully joined room")

----------------------------------------------------------------------------
(* No room is linked to itself *)

\* C20: whatever the directory holds, no discovered pair has the same id
\* twice and the table never maps a room id to the handle of that same room;
\* a relayed copy is never sent into the room the message came from.
C20_NoSelfLink ==
    /\ \A i \in PairIndices :
          corresponding_room_ids[i][1] /= corresponding_room_ids[i][2]
    /\ \A r \in DOMAIN two_way_map : two_way_map[r].room_id /= r
    /\ \A r \in DOMAIN handler_map : handler_map[r].room_id /= r
    /\ (MessageHandled /\ ~IsCommand(cur.body)) =>
          \A i \in 1..Len(sent) : sent[i].to /= cur.room

\* the live sync runs with a table that links a tagged room, whose own name
\* was among the answers to the query for its counterpart's name
C20_Witness ==
    /\ pc = "live"
    /\ \E i \in PairIndices :
          LET tor == corresponding_room_ids[i][1]
              clearnet == corresponding_room_ids[i][2]
          IN  /\ Contains(dirName[tor], dirName[clearnet])
              /\ tor \in DOMAIN handler_map
              /\ handler_map[tor].room_id = clearnet

====
